---- MODULE Spec2Model ----
(***************************************************************************)
(* Metered dispatch and lifecycle tracking of the Syft LLM router:         *)
(*   src/chat_service.py   CustomChatService.generate_chat, pricing        *)
(*   src/router.py         SyftLLMRouter                                   *)
(*   src/spawn_services.py CustomServiceManager                            *)
(***************************************************************************)
EXTENDS Integers, Sequences, FiniteSets, TLC

\* ------------------------------------------------------------------------
\* Bounds
\* ------------------------------------------------------------------------
\* number of caller slots that go through the Router concurrently
MaxCalls == 2
\* largest price a published metadata file lists for the chat service
MaxPrice == 2

RouterCalls == 1..MaxCalls
\* service managers; only the managers Init starts ever act
Mgrs == {1, 2}
\* the call slot of the trial generate_chat call of manager m's startup probe
ProbeCall(m) == MaxCalls + m
CallIds == RouterCalls \cup {ProbeCall(m) : m \in Mgrs}

RunStatus == {"STOPPED", "RUNNING", "FAILED"}

\* ------------------------------------------------------------------------
\* Python values
\* ------------------------------------------------------------------------
\* transaction_token: None, the empty string, or a token
Tokens == {"None", "", "abc"}
TokenTruthy(t) == t \notin {"None", ""}

\* the JSON value response.json() returns: kind, number of top-level entries,
\* and (for a dict) the "choices" list as the list of message contents
JsonNull   == [kind |-> "null", size |-> 0, hasChoices |-> FALSE, choices |-> << >>]
JsonList   == [kind |-> "list", size |-> 1, hasChoices |-> FALSE, choices |-> << >>]
EmptyDict  == [kind |-> "dict", size |-> 0, hasChoices |-> FALSE, choices |-> << >>]
ErrorDict  == [kind |-> "dict", size |-> 1, hasChoices |-> FALSE, choices |-> << >>]
NoChoices  == [kind |-> "dict", size |-> 1, hasChoices |-> TRUE,  choices |-> << >>]
AnswerDict == [kind |-> "dict", size |-> 1, hasChoices |-> TRUE,  choices |-> <<"Hello">>]
Bodies == {JsonNull, JsonList, EmptyDict, ErrorDict, NoChoices, AnswerDict}
\* no upstream result (the request was not made, or it raised)
NoBody == [kind |-> "none", size |-> 0, hasChoices |-> FALSE, choices |-> << >>]

\* Python truth value of the value bound to `content`
ContentTruthy(b) == b.kind \in {"list", "dict"} /\ b.size > 0

\* response_data.get(...) exists only on a dict
HasGet(b) == b.kind = "dict"

\* choices = get("choices", [{}]); choice = choices[0] if choices else {};
\* message_data = choice.get("message", {}); message_data.get("content", "")
MessageContent(b) ==
    IF b.hasChoices /\ Len(b.choices) > 0 THEN b.choices[1] ELSE ""

\* ------------------------------------------------------------------------
\* State
\* ------------------------------------------------------------------------
VARIABLES
    process,         \* the program this run is: the router, or spawn_services
    enable_chat,     \* config.enable_chat
    enable_search,   \* config.enable_search
    metadata,        \* the published metadata file
    chat_service,    \* SyftLLMRouter.chat_service: "None" or "impl"
    search_service,  \* SyftLLMRouter.search_service: "None" or "impl"
    call,            \* per call slot: the locals of one generate_chat call
    services,        \* config.state.services: capability -> ServiceState
    router_status,   \* config.state router status
    mgr              \* per manager: the CustomServiceManager and its position

vars == <<process, enable_chat, enable_search, metadata, chat_service, search_service,
          call, services, router_status, mgr>>
cfgVars == <<process, enable_chat, enable_search, metadata, chat_service, search_service>>
stateVars == <<services, router_status, mgr>>

\* ------------------------------------------------------------------------
\* Pricing
\* ------------------------------------------------------------------------
MetadataFiles ==
    {[exists |-> FALSE, chat |-> FALSE, price |-> 0],
     [exists |-> TRUE,  chat |-> FALSE, price |-> 0]}
    \cup {[exists |-> TRUE, chat |-> TRUE, price |-> p] : p \in 0..MaxPrice}

\* CustomChatService.pricing: 0.0 without a metadata file, the CHAT entry's
\* price when listed, and None (the function falls off its end) otherwise
pricing(md) ==
    IF ~md.exists THEN [isNone |-> FALSE, value |-> 0]
    ELSE IF md.chat THEN [isNone |-> FALSE, value |-> md.price]
    ELSE [isNone |-> TRUE, value |-> 0]

\* ------------------------------------------------------------------------
\* Exceptions: the class raised and str(e)
\* ------------------------------------------------------------------------
NoError == [type |-> "", msg |-> ""]
TokenRequiredError ==
    [type |-> "ValueError",
     msg |-> "Transaction token is required for paid services. Please provide a transaction token."]
PriceTypeError ==
    [type |-> "TypeError", msg |-> "'>' not supported between instances of 'NoneType' and 'int'"]
RequestError == [type |-> "RequestException", msg |-> "request failed"]
NoGetError == [type |-> "AttributeError", msg |-> "object has no attribute 'get'"]
AccountingError == [type |-> "AccountingError", msg |-> "accounting service failed"]
ChatNotEnabled == [type |-> "NotImplementedError", msg |-> "Chat functionality is not enabled"]
SearchNotEnabled == [type |-> "NotImplementedError", msg |-> "Search functionality is not enabled"]
SearchError == [type |-> "Exception", msg |-> "search failed"]

\* ------------------------------------------------------------------------
\* One call: the locals of generate_chat and what the call has done so far
\* ------------------------------------------------------------------------
IdleCall ==
    [pc |-> "idle",        \* position in the call
     op |-> "none",        \* "chat" or "search"
     via |-> "none",       \* "router" or "probe"
     token |-> "None",     \* transaction_token
     messages |-> "none",  \* the messages argument: "some", or "empty" for []
     impl |-> "none",      \* the capability implementation method invoked
     entered |-> 0,        \* times that method was entered for this call
     branch |-> "none",    \* "priced" (lines 161-176) or "free" (184-188)
     txn |-> "none",       \* payment_txn: none, open, confirmed, canceled
     amount |-> 0,         \* amount the transaction was opened for
     opened |-> 0,         \* transactions opened by this call
     confirmed |-> 0,      \* confirm() calls that returned
     requests |-> 0,       \* upstream requests issued
     content |-> NoBody,   \* content
     cost |-> 0,           \* query_cost
     pending |-> NoError,  \* exception unwinding through the with block
     outcome |-> "none",   \* "response" or "error"
     error |-> NoError,    \* the exception the caller sees
     message |-> ""]       \* response.message.content

Free(c) == call[c].pc \in {"idle", "done"}

\* the call ends by raising e to its caller (lines 229-234 re-raise it)
Raised(c, e) ==
    call' = [call EXCEPT ![c].pc = "done", ![c].outcome = "error",
                         ![c].error = e, ![c].pending = NoError]

\* mutants of line 161: the token, or the price, is not looked at
PricedBranch_IgnoresToken(price, token) == price.value > 0
PricedBranch_IgnoresPrice(price, token) == TokenTruthy(token)

\* line 161
PricedBranch(price, token) == price.value > 0 /\ TokenTruthy(token)
\* line 178
TokenRequiredBranch(price, token) == price.value > 0 /\ ~TokenTruthy(token)
\* mutant of line 174: confirm whatever the upstream result is
ConfirmNeeded_Always(content) == TRUE

\* line 174: if content
ConfirmNeeded(content) == ContentTruthy(content)
\* mutant of line 176: query_cost is left at 0.0
QueryCost_NotAssigned(price) == 0

\* line 176
QueryCost(price) == price.value

\* generate_chat is entered: lines 117-159 build the payload, query_cost = 0.0
generate_chat_enter(c, via, token, messages) ==
    call' = [call EXCEPT ![c] = [IdleCall EXCEPT !.pc = "gate", !.op = "chat",
                                                 !.via = via, !.token = token,
                                                 !.messages = messages,
                                                 !.impl = "chat",
                                                 !.entered = 1]]

\* mutant of lines 163-176: confirm is called as soon as the transaction is
\* opened, before the upstream request
generate_chat_gate_ConfirmsFirst(c) ==
    /\ call[c].pc = "gate"
    /\ LET price == pricing(metadata) IN
       IF price.isNone THEN Raised(c, PriceTypeError)
       ELSE IF PricedBranch(price, call[c].token) THEN
           call' = [call EXCEPT ![c].pc = "request", ![c].branch = "priced",
                                ![c].txn = "confirmed", ![c].amount = price.value,
                                ![c].opened = @ + 1, ![c].confirmed = @ + 1]
       ELSE IF TokenRequiredBranch(price, call[c].token) THEN
           Raised(c, TokenRequiredError)
       ELSE call' = [call EXCEPT ![c].pc = "request", ![c].branch = "free"]
    /\ UNCHANGED <<cfgVars, stateVars>>

\* lines 161-188: the branch on self.pricing and transaction_token; the priced
\* branch enters the with block, which opens the transaction
generate_chat_gate(c) ==
    /\ call[c].pc = "gate"
    /\ LET price == pricing(metadata) IN
       IF price.isNone THEN Raised(c, PriceTypeError)
       ELSE IF PricedBranch(price, call[c].token) THEN
           call' = [call EXCEPT ![c].pc = "request", ![c].branch = "priced",
                                ![c].txn = "open", ![c].amount = price.value,
                                ![c].opened = @ + 1]
       ELSE IF TokenRequiredBranch(price, call[c].token) THEN
           Raised(c, TokenRequiredError)
       ELSE call' = [call EXCEPT ![c].pc = "request", ![c].branch = "free"]
    /\ UNCHANGED <<cfgVars, stateVars>>

\* lines 163-169: delegated_transfer raises, no transaction handle is bound
generate_chat_open_raises(c) ==
    /\ call[c].pc = "gate"
    /\ LET price == pricing(metadata) IN
       ~price.isNone /\ PricedBranch(price, call[c].token)
    /\ Raised(c, AccountingError)
    /\ UNCHANGED <<cfgVars, stateVars>>

\* lines 171 / 188 with 101-106: the upstream request returns a JSON value
generate_chat_request_returns(c, body) ==
    /\ call[c].pc = "request"
    /\ call' = [call EXCEPT ![c].requests = @ + 1, ![c].content = body,
                            ![c].pc = IF call[c].branch = "priced"
                                      THEN "check" ELSE "parse"]
    /\ UNCHANGED <<cfgVars, stateVars>>

\* mutant of lines 101-106: a failed request is sent once more
generate_chat_request_raises_Retries(c) ==
    /\ call[c].pc = "request"
    /\ IF call[c].requests = 0
       THEN call' = [call EXCEPT ![c].requests = @ + 1]
       ELSE IF call[c].branch = "priced"
       THEN call' = [call EXCEPT ![c].requests = @ + 1, ![c].pc = "exit",
                                 ![c].pending = RequestError]
       ELSE call' = [call EXCEPT ![c].requests = @ + 1, ![c].pc = "done",
                                 ![c].outcome = "error", ![c].error = RequestError]
    /\ UNCHANGED <<cfgVars, stateVars>>

\* mutant of line 171: the exception leaves generate_chat without unwinding
\* through the with block
generate_chat_request_raises_NoUnwind(c) ==
    /\ call[c].pc = "request"
    /\ call' = [call EXCEPT ![c].requests = @ + 1, ![c].pc = "done",
                            ![c].outcome = "error", ![c].error = RequestError]
    /\ UNCHANGED <<cfgVars, stateVars>>

\* lines 171 / 188 with 101-106: requests.post, raise_for_status or json raise
generate_chat_request_raises(c) ==
    /\ call[c].pc = "request"
    /\ IF call[c].branch = "priced"
       THEN call' = [call EXCEPT ![c].requests = @ + 1, ![c].pc = "exit",
                                 ![c].pending = RequestError]
       ELSE call' = [call EXCEPT ![c].requests = @ + 1, ![c].pc = "done",
                                 ![c].outcome = "error", ![c].error = RequestError]
    /\ UNCHANGED <<cfgVars, stateVars>>

\* mutant of lines 163-175: the transaction handle is kept on the service
\* instance, so confirm reaches the transaction opened last by any call
generate_chat_confirm_SharedHandle(c) ==
    /\ call[c].pc = "check"
    /\ LET others == {d \in CallIds \ {c} : call[d].txn = "open"}
           handle == IF others = {} THEN c ELSE CHOOSE d \in others : TRUE
       IN  IF ConfirmNeeded(call[c].content)
           THEN call' = [call EXCEPT ![handle].txn = "confirmed",
                                     ![c].pc = "exit",
                                     ![c].confirmed = @ + 1,
                                     ![c].cost = QueryCost(pricing(metadata))]
           ELSE call' = [call EXCEPT ![c].pc = "exit"]
    /\ UNCHANGED <<cfgVars, stateVars>>

\* mutant of lines 174-176: line 176 is dedented out of the if
generate_chat_confirm_CostOutsideIf(c) ==
    /\ call[c].pc = "check"
    /\ IF ContentTruthy(call[c].content)
       THEN call' = [call EXCEPT ![c].pc = "exit", ![c].txn = "confirmed",
                                 ![c].confirmed = @ + 1,
                                 ![c].cost = pricing(metadata).value]
       ELSE call' = [call EXCEPT ![c].pc = "exit",
                                 ![c].cost = pricing(metadata).value]
    /\ UNCHANGED <<cfgVars, stateVars>>

\* lines 174-176: confirm when content is truthy, then query_cost = pricing
generate_chat_confirm(c) ==
    /\ call[c].pc = "check"
    /\ IF ConfirmNeeded(call[c].content)
       THEN call' = [call EXCEPT ![c].pc = "exit", ![c].txn = "confirmed",
                                 ![c].confirmed = @ + 1,
                                 ![c].cost = QueryCost(pricing(metadata))]
       ELSE call' = [call EXCEPT ![c].pc = "exit"]
    /\ UNCHANGED <<cfgVars, stateVars>>

\* line 175: payment_txn.confirm() raises
generate_chat_confirm_raises(c) ==
    /\ call[c].pc = "check"
    /\ ConfirmNeeded(call[c].content)
    /\ call' = [call EXCEPT ![c].pc = "exit", ![c].pending = AccountingError]
    /\ UNCHANGED <<cfgVars, stateVars>>

\* mutant of the with block: the transaction is confirmed on every exit
generate_chat_with_exit_Commits(c) ==
    /\ call[c].pc = "exit"
    /\ LET committed == call[c].txn = "open" IN
       IF call[c].pending # NoError
       THEN call' = [call EXCEPT ![c].txn = "confirmed",
                                 ![c].confirmed = IF committed THEN @ + 1 ELSE @,
                                 ![c].pc = "done", ![c].outcome = "error",
                                 ![c].error = call[c].pending,
                                 ![c].pending = NoError]
       ELSE call' = [call EXCEPT ![c].txn = "confirmed",
                                 ![c].confirmed = IF committed THEN @ + 1 ELSE @,
                                 ![c].pc = "parse"]
    /\ UNCHANGED <<cfgVars, stateVars>>

\* the end of the with block (lines 163-176): the context manager releases a
\* transaction that was not confirmed; a pending exception goes on to the caller
generate_chat_with_exit(c) ==
    /\ call[c].pc = "exit"
    /\ LET released == IF call[c].txn = "open" THEN "canceled" ELSE call[c].txn IN
       IF call[c].pending # NoError
       THEN call' = [call EXCEPT ![c].txn = released, ![c].pc = "done",
                                 ![c].outcome = "error",
                                 ![c].error = call[c].pending,
                                 ![c].pending = NoError]
       ELSE call' = [call EXCEPT ![c].txn = released, ![c].pc = "parse"]
    /\ UNCHANGED <<cfgVars, stateVars>>

\* lines 191-227: normalise the upstream result into the ChatResponse
generate_chat_return(c) ==
    /\ call[c].pc = "parse"
    /\ IF HasGet(call[c].content)
       THEN call' = [call EXCEPT ![c].pc = "done", ![c].outcome = "response",
                                 ![c].message = MessageContent(call[c].content)]
       ELSE Raised(c, NoGetError)
    /\ UNCHANGED <<cfgVars, stateVars>>

\* ------------------------------------------------------------------------
\* Router
\* ------------------------------------------------------------------------
\* the status capability n has in the state store svcs ("absent" if untracked)
StatusOf(svcs, n) == IF n \in DOMAIN svcs THEN svcs[n].status ELSE "absent"

\* mutant of router.py line 67: the guard is missing
ChatDisabled_NoGuard(svc) == FALSE

\* mutant of router.py line 67: a capability that is not RUNNING is refused
ChatDisabled_ChecksLifecycle(svc) ==
    svc = "None" \/ StatusOf(services, "chat") # "RUNNING"

\* router.py line 67
ChatDisabled(svc) == svc = "None"
\* router.py line 85
SearchDisabled(svc) == svc = "None"

\* router.py line 69: what the caller of Router.generate_chat gets from the
\* finished capability call r, its response or the exception it raised
Router_result(r) ==
    [outcome |-> r.outcome, error |-> r.error, message |-> r.message, cost |-> r.cost]

\* SyftLLMRouter.generate_chat
Router_generate_chat(c, token, messages) ==
    /\ process = "router"
    /\ c \in RouterCalls
    /\ Free(c)
    /\ IF ChatDisabled(chat_service)
       THEN call' = [call EXCEPT ![c] = [IdleCall EXCEPT !.pc = "done", !.op = "chat",
                                         !.via = "router", !.token = token,
                                         !.messages = messages,
                                         !.outcome = "error", !.error = ChatNotEnabled]]
       ELSE generate_chat_enter(c, "router", token, messages)
    /\ UNCHANGED <<cfgVars, stateVars>>

\* SyftLLMRouter.search_documents; the search implementation either returns a
\* response or raises
Router_search_documents(c, ok) ==
    /\ process = "router"
    /\ c \in RouterCalls
    /\ Free(c)
    /\ IF SearchDisabled(search_service)
       THEN call' = [call EXCEPT ![c] = [IdleCall EXCEPT !.pc = "done", !.op = "search",
                                         !.via = "router",
                                         !.outcome = "error", !.error = SearchNotEnabled]]
       ELSE call' = [call EXCEPT ![c] = [IdleCall EXCEPT !.pc = "done", !.op = "search",
                                         !.via = "router", !.impl = "search",
                                         !.outcome = IF ok THEN "response" ELSE "error",
                                         !.error = IF ok THEN NoError ELSE SearchError]]
    /\ UNCHANGED <<cfgVars, stateVars>>

\* ------------------------------------------------------------------------
\* Lifecycle state store (config.state)
\* ------------------------------------------------------------------------
Fields == {"status", "url", "port", "pid", "started_at", "error"}

\* the ServiceState a name gets when it is first written
NewServiceState ==
    [status |-> "STOPPED", url |-> "None", port |-> "None", pid |-> "None",
     started_at |-> "None", error |-> "None"]

\* config.state.update_service_state(name, **kwargs): the record of `name`
\* is replaced by one that carries the given fields and keeps the others
update_service_state(svcs, name, kwargs) ==
    LET old == IF name \in DOMAIN svcs THEN svcs[name] ELSE NewServiceState
        new == [f \in Fields |-> IF f \in DOMAIN kwargs THEN kwargs[f] ELSE old[f]]
    IN  [n \in (DOMAIN svcs) \cup {name} |-> IF n = name THEN new ELSE svcs[n]]

\* the keyword arguments of lines 70-78 and 80-88
StoppedCleared ==
    [status |-> "STOPPED", url |-> "None", port |-> "None", pid |-> "None",
     started_at |-> "None", error |-> "None"]

\* mutant of lines 70 and 80: the initial status written is RUNNING
initialize_state_MarksRunning(svcs) ==
    LET s1 == IF enable_chat
              THEN update_service_state(svcs, "chat", [status |-> "RUNNING"])
              ELSE svcs
    IN  IF enable_search
        THEN update_service_state(s1, "search", [status |-> "RUNNING"]) ELSE s1

\* CustomServiceManager._initialize_state
initialize_state(svcs) ==
    LET s1 == IF enable_chat
              THEN update_service_state(svcs, "chat", StoppedCleared) ELSE svcs
    IN  IF enable_search
        THEN update_service_state(s1, "search", StoppedCleared) ELSE s1

\* the keyword arguments of lines 177-179
CleanupUpdate == [status |-> "STOPPED"]

\* lines 176-179: the loop over config.state.services.keys()
RECURSIVE cleanup_loop(_, _)
cleanup_loop(svcs, keys) ==
    IF keys = {} THEN svcs
    ELSE LET n == CHOOSE k \in keys : TRUE
         IN  cleanup_loop(update_service_state(svcs, n, CleanupUpdate), keys \ {n})

\* ------------------------------------------------------------------------
\* CustomServiceManager
\* ------------------------------------------------------------------------
NoServices == [n \in {} |-> NewServiceState]

OffManager ==
    [pc |-> "off",            \* "off", "idle", or "probing" (inside spawn_custom_chat)
     api_key |-> FALSE,       \* custom_chat_api_key is set
     custom_chat_url |-> "None",
     last |-> "none",         \* the operation that ran last
     ret |-> "None",          \* what it returned
     trial |-> "none",        \* the last probe pass: "nokey", or how the trial
                              \* call ended: "raised", "empty", "answer"
     wroteRunning |-> FALSE,  \* the running probe pass has written RUNNING
     cleanups |-> 0,          \* cleanup_services runs in a row, counted up to 2
     snap |-> NoServices]     \* the services as the first of these runs left them

NewManager(key) == [OffManager EXCEPT !.pc = "idle", !.api_key = key, !.last = "init"]

KeyMissingMsg == "OPENROUTER_API_KEY is required but not found in environment variables"
NoResponseMsg == "Chat service test failed - no response received"
NotImplementedMsg == "Not implemented"

\* mutant of line 119: the message content is not looked at
ProbeOk_AnyResponse(r) == r.outcome = "response"

\* line 119: test_response and test_response.message.content
ProbeOk(r) == r.outcome = "response" /\ r.message # ""

\* how the trial call ended: it raised, or returned a response whose message
\* content is empty or not
TrialResult(r) ==
    IF r.outcome = "error" THEN "raised"
    ELSE IF r.message = "" THEN "empty" ELSE "answer"

\* str(e) of the exception lines 130-134 catch
ProbeError(r) == IF r.outcome = "error" THEN r.error.msg ELSE NoResponseMsg

\* CustomServiceManager.__init__ (a new manager over the same state store)
manager_init(m, key) ==
    /\ mgr[m].pc = "idle"
    /\ mgr' = [mgr EXCEPT ![m] = NewManager(key)]
    /\ services' = initialize_state(services)
    /\ UNCHANGED <<cfgVars, call, router_status>>

\* mutant of lines 112-117: the trial call carries a transaction token
spawn_custom_chat_start_PassesToken(m) ==
    /\ mgr[m].pc = "idle"
    /\ IF ~mgr[m].api_key
       THEN /\ services' = update_service_state(services, "chat",
                               [status |-> "FAILED", error |-> KeyMissingMsg])
            /\ mgr' = [mgr EXCEPT ![m].last = "spawn_chat", ![m].ret = "False",
                                  ![m].trial = "nokey",
                                  ![m].wroteRunning = FALSE, ![m].cleanups = 0,
                                  ![m].snap = NoServices]
            /\ UNCHANGED call
       ELSE /\ generate_chat_enter(ProbeCall(m), "probe", "abc", "some")
            /\ mgr' = [mgr EXCEPT ![m].pc = "probing", ![m].last = "spawn_chat",
                                  ![m].ret = "None", ![m].trial = "none",
                                  ![m].wroteRunning = FALSE,
                                  ![m].cleanups = 0, ![m].snap = NoServices]
            /\ UNCHANGED services
    /\ UNCHANGED <<cfgVars, router_status>>

\* spawn_custom_chat, lines 90-117: without an API key the probe fails at once;
\* otherwise the trial generate_chat call is made, without a transaction token
spawn_custom_chat_start(m) ==
    /\ mgr[m].pc = "idle"
    /\ IF ~mgr[m].api_key
       THEN /\ services' = update_service_state(services, "chat",
                               [status |-> "FAILED", error |-> KeyMissingMsg])
            /\ mgr' = [mgr EXCEPT ![m].last = "spawn_chat", ![m].ret = "False",
                                  ![m].trial = "nokey",
                                  ![m].wroteRunning = FALSE, ![m].cleanups = 0,
                                  ![m].snap = NoServices]
            /\ UNCHANGED call
       ELSE /\ generate_chat_enter(ProbeCall(m), "probe", "None", "some")
            /\ mgr' = [mgr EXCEPT ![m].pc = "probing", ![m].last = "spawn_chat",
                                  ![m].ret = "None", ![m].trial = "none",
                                  ![m].wroteRunning = FALSE,
                                  ![m].cleanups = 0, ![m].snap = NoServices]
            /\ UNCHANGED services
    /\ UNCHANGED <<cfgVars, router_status>>

\* spawn_custom_chat, lines 119-135: the trial call has returned or raised;
\* its response or exception is consumed
spawn_custom_chat_finish(m) ==
    /\ mgr[m].pc = "probing"
    /\ call[ProbeCall(m)].pc = "done"
    /\ LET r == call[ProbeCall(m)] IN
       IF ProbeOk(r)
       THEN /\ services' = update_service_state(services, "chat",
                               [status |-> "RUNNING", url |-> mgr[m].custom_chat_url])
            /\ mgr' = [mgr EXCEPT ![m].pc = "idle", ![m].ret = "True",
                                  ![m].trial = TrialResult(r),
                                  ![m].wroteRunning = TRUE]
       ELSE /\ services' = update_service_state(services, "chat",
                               [status |-> "FAILED", error |-> ProbeError(r)])
            /\ mgr' = [mgr EXCEPT ![m].pc = "idle", ![m].ret = "False",
                                  ![m].trial = TrialResult(r)]
    /\ call' = [call EXCEPT ![ProbeCall(m)] = IdleCall]
    /\ UNCHANGED <<cfgVars, router_status>>

\* mutant of lines 156-159: the placeholder reports the capability as started
spawn_custom_search_MarksRunning(m) ==
    /\ mgr[m].pc = "idle"
    /\ services' = update_service_state(services, "search", [status |-> "RUNNING"])
    /\ mgr' = [mgr EXCEPT ![m].last = "spawn_search", ![m].ret = "True",
                          ![m].cleanups = 0, ![m].snap = NoServices]
    /\ UNCHANGED <<cfgVars, call, router_status>>

\* spawn_custom_search
spawn_custom_search(m) ==
    /\ mgr[m].pc = "idle"
    /\ services' = update_service_state(services, "search",
                       [status |-> "FAILED", error |-> NotImplementedMsg])
    /\ mgr' = [mgr EXCEPT ![m].last = "spawn_search", ![m].ret = "False",
                          ![m].cleanups = 0, ![m].snap = NoServices]
    /\ UNCHANGED <<cfgVars, call, router_status>>

\* cleanup_services
cleanup_services(m) ==
    /\ mgr[m].pc = "idle"
    /\ router_status' = "STOPPED"
    /\ services' = cleanup_loop(services, DOMAIN services)
    /\ mgr' = [mgr EXCEPT ![m].last = "cleanup", ![m].ret = "None",
                          ![m].cleanups = IF @ < 2 THEN @ + 1 ELSE @,
                          ![m].snap = IF mgr[m].cleanups = 0 THEN services' ELSE @]
    /\ UNCHANGED <<cfgVars, call>>

\* ------------------------------------------------------------------------
\* Specification
\* ------------------------------------------------------------------------
\* the configuration either program loads, and the state store it finds
InitConfig ==
    /\ enable_chat \in BOOLEAN
    /\ enable_search \in BOOLEAN
    /\ metadata \in MetadataFiles
    /\ call = [c \in CallIds |-> IdleCall]

\* the router process after SyftLLMRouter.__init__ (router.py lines 44-56);
\* no service manager lives in it
InitRouter ==
    /\ process = "router"
    /\ chat_service = IF enable_chat THEN "impl" ELSE "None"
    /\ search_service = IF enable_search THEN "impl" ELSE "None"
    /\ mgr = [m \in Mgrs |-> OffManager]
    /\ services = initialize_state(NoServices)
    /\ router_status = "RUNNING"

\* the spawn_services process after CustomServiceManager.__init__
\* (spawn_services.py lines 32-63); no router lives in it
InitManager ==
    /\ process = "spawn_services"
    /\ chat_service = "None"
    /\ search_service = "None"
    /\ \E key \in BOOLEAN :
          mgr = [m \in Mgrs |-> IF m = 1 THEN NewManager(key) ELSE OffManager]
    /\ services = initialize_state(NoServices)
    /\ router_status \in RunStatus

Init == InitConfig /\ (InitRouter \/ InitManager)

\* the router serving well-formed requests: the message list is not empty
RouterSteps ==
    \/ \E c \in RouterCalls, t \in Tokens : Router_generate_chat(c, t, "some")
    \/ \E c \in RouterCalls, ok \in BOOLEAN : Router_search_documents(c, ok)

ChatSteps ==
    \/ \E c \in CallIds : generate_chat_gate(c)
    \/ \E c \in CallIds : generate_chat_open_raises(c)
    \/ \E c \in CallIds, b \in Bodies : generate_chat_request_returns(c, b)
    \/ \E c \in CallIds : generate_chat_request_raises(c)
    \/ \E c \in CallIds : generate_chat_confirm(c)
    \/ \E c \in CallIds : generate_chat_confirm_raises(c)
    \/ \E c \in CallIds : generate_chat_with_exit(c)
    \/ \E c \in CallIds : generate_chat_return(c)

ManagerSteps ==
    \/ \E m \in Mgrs, key \in BOOLEAN : manager_init(m, key)
    \/ \E m \in Mgrs : spawn_custom_chat_start(m)
    \/ \E m \in Mgrs : spawn_custom_chat_finish(m)
    \/ \E m \in Mgrs : spawn_custom_search(m)
    \/ \E m \in Mgrs : cleanup_services(m)

Next == RouterSteps \/ ChatSteps \/ ManagerSteps

Spec == Init /\ [][Next]_vars

\* the router serving any request, an empty message list included
MessageLists == {"some", "empty"}

AnyRequestSteps ==
    \/ \E c \in RouterCalls, t \in Tokens, ms \in MessageLists :
          Router_generate_chat(c, t, ms)
    \/ \E c \in RouterCalls, ok \in BOOLEAN : Router_search_documents(c, ok)

NextAnyRequest == AnyRequestSteps \/ ChatSteps \/ ManagerSteps

SpecAnyRequest == Init /\ [][NextAnyRequest]_vars

\* two spawn_services programs at once over the same state store: each has
\* constructed its CustomServiceManager (one probing, one started with
\* --cleanup, in any order and any number of times)
InitConcurrent ==
    /\ InitConfig
    /\ process = "spawn_services"
    /\ chat_service = "None"
    /\ search_service = "None"
    /\ \E key \in BOOLEAN : mgr = [m \in Mgrs |-> NewManager(key)]
    /\ services = initialize_state(NoServices)
    /\ router_status \in RunStatus

\* the steps of generate_chat a trial call can take: it carries no token, so
\* it never enters the with block of lines 163-176
TrialChatSteps ==
    \/ \E m \in Mgrs : generate_chat_gate(ProbeCall(m))
    \/ \E m \in Mgrs, b \in Bodies : generate_chat_request_returns(ProbeCall(m), b)
    \/ \E m \in Mgrs : generate_chat_request_raises(ProbeCall(m))
    \/ \E m \in Mgrs : generate_chat_return(ProbeCall(m))

NextConcurrent == TrialChatSteps \/ ManagerSteps

SpecConcurrent == InitConcurrent /\ [][NextConcurrent]_vars

\* the records a probe pass of spawn_custom_chat leaves for the chat
\* capability (lines 121-125 and 131-134), next to the one initialization
\* leaves
ChatRecords ==
    {StoppedCleared, [StoppedCleared EXCEPT !.status = "RUNNING"]}
    \cup {[StoppedCleared EXCEPT !.status = "FAILED", !.error = e] :
              e \in {KeyMissingMsg, NoResponseMsg}}

\* the router process serving after spawn_services has run and ended: the
\* state store holds what the chat probe left
InitServing ==
    /\ InitConfig
    /\ process = "router"
    /\ chat_service = IF enable_chat THEN "impl" ELSE "None"
    /\ search_service = IF enable_search THEN "impl" ELSE "None"
    /\ mgr = [m \in Mgrs |-> OffManager]
    /\ \E r \in ChatRecords :
          services = IF enable_chat
                     THEN update_service_state(initialize_state(NoServices), "chat", r)
                     ELSE initialize_state(NoServices)
    /\ router_status = "RUNNING"

\* one client of the router, sending one chat request after the other
ServingCaller == CHOOSE c \in RouterCalls : TRUE

ServingSteps ==
    \E t \in Tokens : Router_generate_chat(ServingCaller, t, "some")

NextServing == ServingSteps \/ ChatSteps

SpecServing == InitServing /\ [][NextServing]_vars

\* main (spawn_services.py lines 195-223), one run of the program
\* lines 206-207 raised: no manager was constructed
ConstructorRaised == [OffManager EXCEPT !.last = "init_raised"]

\* the run of manager mg has reached one of main's return statements
main_exited(mg) ==
    \/ mg.last \in {"init_raised", "cleanup"}
    \/ mg.last = "spawn_chat" /\ mg.pc = "idle"

\* mutant of lines 214-219: 0 is returned whatever spawn_custom_chat returned
main_IgnoresProbe(mg) == IF mg.last = "init_raised" THEN 1 ELSE 0

\* the value main returns: 1 from the except clause (lines 221-223), 0 after
\* cleanup (lines 209-211), and 0 or 1 by what spawn_custom_chat returned
\* (lines 214-219)
main(mg) ==
    IF mg.last = "init_raised" THEN 1
    ELSE IF mg.last = "cleanup" THEN 0
    ELSE IF mg.ret = "True" THEN 0 ELSE 1

\* the state after line 207, or after it raised
InitMain ==
    /\ InitConfig
    /\ process = "spawn_services"
    /\ chat_service = "None"
    /\ search_service = "None"
    /\ router_status \in RunStatus
    /\ \/ /\ \E key \in BOOLEAN :
                mgr = [m \in Mgrs |-> IF m = 1 THEN NewManager(key) ELSE OffManager]
          /\ services = initialize_state(NoServices)
       \/ /\ mgr = [m \in Mgrs |-> IF m = 1 THEN ConstructorRaised ELSE OffManager]
          /\ services = NoServices

\* lines 209-211: args.cleanup
main_cleanup(m) ==
    /\ mgr[m].last = "init"
    /\ cleanup_services(m)

\* lines 214: spawn_custom_chat is called
main_spawn(m) ==
    /\ mgr[m].last = "init"
    /\ spawn_custom_chat_start(m)

MainSteps ==
    \/ \E m \in Mgrs : main_cleanup(m)
    \/ \E m \in Mgrs : main_spawn(m)
    \/ \E m \in Mgrs : spawn_custom_chat_finish(m)

NextMain == MainSteps \/ TrialChatSteps

SpecMain == InitMain /\ [][NextMain]_vars

\* ------------------------------------------------------------------------
\* Properties
\* ------------------------------------------------------------------------
\* the price generate_chat sees is positive / is zero
Priced == ~pricing(metadata).isNone /\ pricing(metadata).value > 0
FreePrice == ~pricing(metadata).isNone /\ pricing(metadata).value = 0
Price == pricing(metadata).value

\* call slot c holds a call that entered CustomChatService.generate_chat
InChat(c) == call[c].impl = "chat"
Returned(c) == call[c].pc = "done" /\ call[c].outcome = "response"
Failed(c) == call[c].pc = "done" /\ call[c].outcome = "error"

\* C1 as stated: every priced generate_chat call with a token for which the
\* upstream provider returned a result and that returned a response opened
\* exactly one transaction, confirmed it exactly once and has cost == price.
C1_AsStated ==
    \A c \in CallIds :
        (InChat(c) /\ Priced /\ TokenTruthy(call[c].token)
           /\ call[c].content # NoBody /\ Returned(c))
        => /\ call[c].opened = 1
           /\ call[c].confirmed = 1
           /\ call[c].txn = "confirmed"
           /\ call[c].cost = Price

\* C1 amended: every priced generate_chat call with a token for which the
\* upstream provider returned a non-empty (truthy) result and that returned a
\* response opened exactly one transaction, for the price, confirmed it
\* exactly once and has cost == price.
C1_PricedSuccessConfirmedOnce ==
    \A c \in CallIds :
        (InChat(c) /\ Priced /\ TokenTruthy(call[c].token)
           /\ ContentTruthy(call[c].content) /\ Returned(c))
        => /\ call[c].opened = 1
           /\ call[c].amount = Price
           /\ call[c].confirmed = 1
           /\ call[c].txn = "confirmed"
           /\ call[c].cost = Price

C1_Witness ==
    \E c \in CallIds :
        /\ InChat(c) /\ Priced /\ TokenTruthy(call[c].token)
        /\ ContentTruthy(call[c].content) /\ Returned(c)
        /\ call[c].confirmed = 1 /\ call[c].cost = MaxPrice

\* the upstream request of call c raised (the exception is unwinding through
\* the with block, or has reached the caller)
UpstreamRaised(c) == call[c].pending = RequestError \/ call[c].error = RequestError

\* C2: when the upstream request of a priced call with a token raises, the
\* transaction opened for the call is never confirmed, the error propagates
\* to the caller and no response, hence no cost, is returned.
C2_UpstreamFailureNeverConfirmed ==
    \A c \in CallIds :
        (InChat(c) /\ Priced /\ TokenTruthy(call[c].token) /\ UpstreamRaised(c))
        => /\ call[c].opened = 1
           /\ call[c].confirmed = 0
           /\ call[c].txn # "confirmed"
           /\ call[c].outcome # "response"
           /\ call[c].cost = 0
           /\ call[c].pc \in {"exit", "done"}
           /\ call[c].pc = "done" => (Failed(c) /\ call[c].error = RequestError)

C2_Witness ==
    \E c \in CallIds :
        /\ InChat(c) /\ Priced /\ TokenTruthy(call[c].token)
        /\ Failed(c) /\ call[c].error = RequestError
        /\ call[c].opened = 1 /\ call[c].txn = "canceled"

\* C3: a priced generate_chat call without a transaction token (None or
\* empty) fails with the token-required error (raised as ValueError), and it
\* neither issues an upstream request nor opens a transaction.
C3_NoTokenNoCall ==
    \A c \in CallIds :
        (InChat(c) /\ Priced /\ ~TokenTruthy(call[c].token))
        => /\ call[c].requests = 0
           /\ call[c].opened = 0
           /\ call[c].txn = "none"
           /\ call[c].pc \in {"gate", "done"}
           /\ call[c].pc = "done" => (Failed(c) /\ call[c].error = TokenRequiredError)

C3_Witness ==
    \E c, d \in CallIds :
        /\ InChat(c) /\ InChat(d) /\ Priced
        /\ call[c].token = "None" /\ call[d].token = ""
        /\ Failed(c) /\ call[c].error = TokenRequiredError
        /\ Failed(d) /\ call[d].error = TokenRequiredError

\* C4: a generate_chat call at price 0 opens and confirms no transaction,
\* with or without a token; it makes the upstream request directly and any
\* response it returns has cost 0.
C4_FreeCallNoTransaction ==
    \A c \in CallIds :
        (InChat(c) /\ FreePrice)
        => /\ call[c].opened = 0
           /\ call[c].confirmed = 0
           /\ call[c].txn = "none"
           /\ call[c].cost = 0
           /\ call[c].pc \notin {"check", "exit"}
           /\ call[c].pc = "done" => call[c].requests = 1

C4_Witness ==
    \E c, d \in CallIds :
        /\ InChat(c) /\ InChat(d) /\ FreePrice
        /\ TokenTruthy(call[c].token) /\ ~TokenTruthy(call[d].token)
        /\ Returned(c) /\ call[c].cost = 0 /\ call[c].requests = 1
        /\ Returned(d) /\ call[d].cost = 0 /\ call[d].requests = 1

\* C5: for every completed priced generate_chat call the transaction is
\* confirmed if and only if a response with non-empty message content is
\* returned to the caller.
C5_ChargedIffUsableResponse ==
    \A c \in CallIds :
        (InChat(c) /\ Priced /\ call[c].pc = "done")
        => (call[c].confirmed > 0 <=> (Returned(c) /\ call[c].message # ""))

\* C6: a response returned by generate_chat has nonzero cost only if a
\* transaction was opened for that call and that transaction was confirmed.
C6_CostOnlyIfConfirmed ==
    \A c \in CallIds :
        (InChat(c) /\ Returned(c) /\ call[c].cost # 0)
        => /\ call[c].opened = 1
           /\ call[c].confirmed = 1
           /\ call[c].txn = "confirmed"

C6_Witness ==
    \E c \in CallIds :
        /\ InChat(c) /\ Returned(c) /\ call[c].cost # 0
        /\ call[c].txn = "confirmed"

\* call slot c holds a Router call to a capability that is disabled
ToDisabled(c) ==
    /\ call[c].via = "router"
    /\ \/ call[c].op = "chat" /\ ~enable_chat
       \/ call[c].op = "search" /\ ~enable_search

\* C7: a Router.generate_chat call with chat disabled, and a
\* Router.search_documents call with search disabled, fails with the
\* not-enabled error (raised as NotImplementedError), and no method of a
\* capability implementation is invoked: no upstream request, no transaction.
C7_DisabledNotInvoked ==
    \A c \in CallIds :
        ToDisabled(c)
        => /\ Failed(c)
           /\ call[c].error = (IF call[c].op = "chat"
                               THEN ChatNotEnabled ELSE SearchNotEnabled)
           /\ call[c].impl = "none"
           /\ call[c].requests = 0
           /\ call[c].opened = 0

C7_Witness ==
    \E c, d \in CallIds :
        /\ ToDisabled(c) /\ call[c].op = "chat" /\ Failed(c)
        /\ ToDisabled(d) /\ call[d].op = "search" /\ Failed(d)

\* manager m has just finished a probe pass that failed: the API key was
\* missing, the trial call raised, or it returned an empty message
ProbeFailed(m) ==
    /\ mgr[m].pc = "idle"
    /\ mgr[m].last = "spawn_chat"
    /\ mgr[m].trial \in {"nokey", "raised", "empty"}

\* C8: when the chat startup probe fails, the capability ends the probe
\* pass in status FAILED with a non-empty error string, and the pass did not
\* set its status to RUNNING at any point.
C8_FailedProbeNeverRunning ==
    \A m \in Mgrs :
        /\ mgr[m].pc = "probing" => ~mgr[m].wroteRunning
        /\ ProbeFailed(m)
           => /\ "chat" \in DOMAIN services
              /\ services["chat"].status = "FAILED"
              /\ services["chat"].error \notin {"None", ""}
              /\ ~mgr[m].wroteRunning
              /\ mgr[m].ret = "False"

C8_Witness ==
    \E m \in Mgrs :
        /\ ProbeFailed(m) /\ mgr[m].trial = "empty"
        /\ services["chat"].status = "FAILED"
        /\ services["chat"].error = NoResponseMsg

\* C9: after cleanup_services has run, every tracked capability has status
\* STOPPED and its url, port, pid, started_at and error are cleared.
C9_CleanupClearsEverything ==
    \A m \in Mgrs :
        mgr[m].last = "cleanup"
        => \A n \in DOMAIN services : services[n] = StoppedCleared

\* C10: cleanup_services is idempotent: after two runs in a row the state is
\* the state the first run left, and after both runs every tracked capability
\* is STOPPED with cleared fields.
C10_CleanupIdempotent ==
    \A m \in Mgrs :
        mgr[m].cleanups = 2
        => /\ services = mgr[m].snap
           /\ \A n \in DOMAIN mgr[m].snap : mgr[m].snap[n] = StoppedCleared
           /\ \A n \in DOMAIN services : services[n] = StoppedCleared


\* the metadata lists no price for chat: the file is missing, or it has no
\* entry of type CHAT
NoChatPrice == ~metadata.exists \/ ~metadata.chat

\* C11: the resolved price is 0 when no metadata file exists and when the
\* file has no CHAT entry, and a generate_chat call is then handled as a free
\* call: the price lookup raises no error, no transaction is opened and the
\* cost is 0.
C11_MissingPriceIsFree ==
    NoChatPrice
    => /\ ~pricing(metadata).isNone
       /\ pricing(metadata).value = 0
       /\ \A c \in CallIds :
              InChat(c)
              => /\ call[c].opened = 0
                 /\ call[c].cost = 0
                 /\ Failed(c) => call[c].error \in {RequestError, NoGetError}


\* C12: a generate_chat call with an empty message list opens no transaction
\* and makes no upstream request, and when it has ended it has failed with a
\* validation error (not with the errors of the pricing gate or of the
\* upstream request).
C12_EmptyMessagesRejected ==
    \A c \in CallIds :
        InChat(c) /\ call[c].messages = "empty"
        => /\ call[c].opened = 0
           /\ call[c].requests = 0
           /\ call[c].pc = "done"
              => /\ call[c].outcome = "error"
                 /\ call[c].error \notin {TokenRequiredError, PriceTypeError,
                                          RequestError, NoGetError, AccountingError}


\* the call has left the with block of lines 163-176, normally or by an
\* exception
PastWith(c) == call[c].pc \in {"parse", "done"}

\* C13: on every exit path of a generate_chat call, a transaction the call
\* opened has been released: once the call is past the with block (returning
\* normally, or raising because the upstream request or confirm raised) its
\* transaction is confirmed or canceled, never open.
C13_OpenedTransactionReleased ==
    \A c \in CallIds :
        InChat(c) /\ PastWith(c)
        => /\ call[c].txn # "open"
           /\ call[c].opened >= 1 => call[c].txn \in {"confirmed", "canceled"}

\* confirm raised after the upstream request returned: the call has failed
\* and its transaction was canceled
C13_Witness ==
    \E c \in CallIds :
        /\ Failed(c)
        /\ call[c].error = AccountingError
        /\ call[c].opened = 1
        /\ call[c].requests = 1
        /\ call[c].txn = "canceled"


\* call slot c holds a priced generate_chat call: price > 0 and a token
PricedCall(c) == InChat(c) /\ Priced /\ TokenTruthy(call[c].token)

\* C14: in a priced generate_chat call the transaction is opened before the
\* upstream request and confirm comes after the request returned a non-empty
\* result: a call that has issued its request has opened its transaction, a
\* call waiting to issue it holds an open, unconfirmed transaction, and a
\* call that has confirmed has issued its request and holds a non-empty
\* result.
C14_OpenRequestConfirmOrder ==
    \A c \in CallIds :
        PricedCall(c)
        => /\ call[c].requests >= 1 => call[c].opened = 1
           /\ call[c].pc = "request"
              => call[c].txn = "open" /\ call[c].confirmed = 0
           /\ (call[c].confirmed >= 1 \/ call[c].txn = "confirmed")
              => /\ call[c].requests = 1
                 /\ call[c].content # NoBody
                 /\ ContentTruthy(call[c].content)

\* a priced call that has just confirmed: one transaction opened, one
\* request answered, one confirm
C14_Witness ==
    \E c \in CallIds :
        /\ PricedCall(c)
        /\ call[c].pc = "exit"
        /\ call[c].opened = 1
        /\ call[c].requests = 1
        /\ call[c].confirmed = 1


\* the upstream request of call c returned a falsy value (None, {})
EmptyResult(c) == call[c].content # NoBody /\ ~ContentTruthy(call[c].content)

\* C15: a priced generate_chat call with a token whose upstream result is
\* empty (falsy) never confirms its transaction and never takes cost = price:
\* its cost stays 0 up to and in the response it returns.
C15_EmptyResultNotCharged ==
    \A c \in CallIds :
        PricedCall(c) /\ EmptyResult(c)
        => /\ call[c].confirmed = 0
           /\ call[c].txn # "confirmed"
           /\ call[c].cost = 0

\* the provider answered {} to a priced call: the response is returned with
\* cost 0 and the transaction was canceled
C15_Witness ==
    \E c \in CallIds :
        /\ PricedCall(c) /\ EmptyResult(c)
        /\ Returned(c)
        /\ call[c].cost = 0
        /\ call[c].txn = "canceled"


\* this step ends a probe pass of manager m whose trial generate_chat call
\* returned a response with a non-empty message
SuccessfulProbeStep(m) ==
    /\ mgr[m].pc = "probing"
    /\ mgr'[m].pc = "idle"
    /\ call[ProbeCall(m)].pc = "done"
    /\ call[ProbeCall(m)].outcome = "response"
    /\ call[ProbeCall(m)].message # ""

\* this step turns the status of capability n into RUNNING
BecomesRunning(n) ==
    /\ n \in DOMAIN services'
    /\ services'[n].status = "RUNNING"
    /\ StatusOf(services, n) # "RUNNING"

\* a manager that was just constructed has left every enabled capability in
\* status STOPPED
InitializedStopped ==
    \A m \in Mgrs :
        mgr[m].last = "init"
        => /\ enable_chat => StatusOf(services, "chat") = "STOPPED"
           /\ enable_search => StatusOf(services, "search") = "STOPPED"

\* C16: a capability's status becomes RUNNING only in the step that ends a
\* probe pass whose trial generation call returned a response with a
\* non-empty message body (and then it is the chat capability); no
\* initialization, cleanup or failed probe sets RUNNING, and initialization
\* leaves every enabled capability STOPPED.
C16_RunningOnlyFromSuccessfulProbe ==
    /\ [] InitializedStopped
    /\ [][\A n \in {"chat", "search"} :
              BecomesRunning(n)
              => n = "chat" /\ \E m \in Mgrs : SuccessfulProbeStep(m)]_vars

\* the probe passed on a non-empty answer and chat is RUNNING
C16_Witness ==
    \E m \in Mgrs :
        /\ mgr[m].last = "spawn_chat" /\ mgr[m].trial = "answer"
        /\ mgr[m].ret = "True"
        /\ StatusOf(services, "chat") = "RUNNING"


\* record r carries the fields of one writer only: what initialization or
\* cleanup leave (STOPPED, nothing else set), what a passed probe leaves
\* (RUNNING and a url, no error) or what a failed probe leaves (FAILED and
\* its error string, no url)
WholeRecord(r) ==
    /\ r.status = "STOPPED" => r.error = "None" /\ r.url = "None"
    /\ r.status = "RUNNING" => r.error = "None"
    /\ r.status = "FAILED" => r.error # "None" /\ r.url = "None"

\* C17: with the health probe of one manager and the cleanup of another
\* running concurrently over the same state store, the chat capability's
\* ServiceState record never holds a mix of one writer's fields and the
\* other's, such as the status STOPPED of cleanup together with the error
\* string of the failed probe.
C17_NoMixedRecord ==
    \A p \in Mgrs : \A q \in Mgrs \ {p} :
        /\ mgr[p].last = "spawn_chat"
        /\ mgr[q].last = "cleanup"
        /\ "chat" \in DOMAIN services
        => WholeRecord(services["chat"])


\* C18: generate_chat calls running concurrently on one service instance do
\* not touch each other's transaction, result or cost: a call's transaction
\* is confirmed exactly when that call itself confirmed it, and then that
\* call's own upstream result is non-empty; the call's cost is the amount of
\* its own transaction if it confirmed and 0 otherwise; and a returned
\* response carries the message of the call's own upstream result.
C18_ConcurrentCallsIsolated ==
    \A c \in CallIds :
        InChat(c)
        => /\ call[c].txn = "confirmed" <=> call[c].confirmed = 1
           /\ call[c].confirmed \in {0, 1}
           /\ call[c].confirmed = 1
              => call[c].opened = 1 /\ ContentTruthy(call[c].content)
           /\ call[c].cost = IF call[c].confirmed = 1 THEN call[c].amount ELSE 0
           /\ Returned(c) => call[c].message = MessageContent(call[c].content)

\* two priced calls in flight at once: one has confirmed its transaction
\* while the other's is still open
C18_Witness ==
    \E c \in CallIds : \E d \in CallIds \ {c} :
        /\ PricedCall(c) /\ PricedCall(d)
        /\ call[c].pc = "exit" /\ call[c].txn = "confirmed"
        /\ call[d].txn = "open"


\* call slot c holds a Router.generate_chat call made while the chat
\* capability is enabled
RouterChatCall(c) ==
    /\ call[c].via = "router"
    /\ call[c].op = "chat"
    /\ chat_service # "None"

\* C19: Router.generate_chat does not consult the lifecycle state: whatever
\* status (STOPPED, RUNNING or FAILED) the state store holds for the enabled
\* chat capability, the call is forwarded to the capability implementation
\* and is not refused by the Router.
C19_DispatchIgnoresLifecycle ==
    \A c \in RouterCalls :
        RouterChatCall(c)
        => /\ StatusOf(services, "chat") \in {"STOPPED", "RUNNING", "FAILED"}
           /\ call[c].impl = "chat"
           /\ call[c].error # ChatNotEnabled

\* the chat capability is marked FAILED and a Router call to it was
\* forwarded, reached the provider and returned a response
C19_Witness ==
    \E c \in RouterCalls :
        /\ RouterChatCall(c)
        /\ StatusOf(services, "chat") = "FAILED"
        /\ Returned(c)
        /\ call[c].requests = 1


\* what CustomChatService.generate_chat handed back for the call in slot c
ServiceResult(c) ==
    [outcome |-> call[c].outcome, error |-> call[c].error,
     message |-> call[c].message, cost |-> call[c].cost]

\* C20: a Router.generate_chat call on the enabled chat capability enters
\* the capability's generate_chat exactly once, that call issues at most one
\* upstream request and opens at most one transaction (nothing is retried),
\* and when it has ended the Router hands its caller the capability's
\* response or exception unchanged.
C20_RouterPassThroughNoRetry ==
    \A c \in RouterCalls :
        RouterChatCall(c)
        => /\ call[c].impl = "chat"
           /\ call[c].entered = 1
           /\ call[c].requests <= 1
           /\ call[c].opened <= 1
           /\ call[c].pc = "done" => Router_result(call[c]) = ServiceResult(c)

\* the upstream request of a Router call failed: it was sent once and the
\* request error reached the Router's caller
C20_Witness ==
    \E c \in RouterCalls :
        /\ RouterChatCall(c)
        /\ call[c].pc = "done"
        /\ call[c].entered = 1
        /\ call[c].requests = 1
        /\ Router_result(call[c]).error = RequestError


\* manager m ran main without --cleanup and main has returned
SpawnRunEnded(m) == main_exited(mgr[m]) /\ mgr[m].last # "cleanup"

\* the chat probe of manager m succeeded: the trial call answered with a
\* non-empty message
ProbeSucceeded(m) == mgr[m].last = "spawn_chat" /\ mgr[m].trial = "answer"

\* C21: when main runs without --cleanup, it returns 0 if and only if the
\* chat probe succeeded and the chat status is RUNNING at exit; after any
\* probe failure the chat status is FAILED and main returns nonzero.
C21_ExitZeroIffRunning ==
    \A m \in Mgrs :
        SpawnRunEnded(m)
        => /\ main(mgr[m]) = 0
              <=> (ProbeSucceeded(m) /\ StatusOf(services, "chat") = "RUNNING")
           /\ ProbeFailed(m)
              => StatusOf(services, "chat") = "FAILED" /\ main(mgr[m]) # 0

\* main has returned 0 after a probe that passed, with chat RUNNING
C21_Witness ==
    \E m \in Mgrs :
        /\ SpawnRunEnded(m)
        /\ main(mgr[m]) = 0
        /\ ProbeSucceeded(m)
        /\ StatusOf(services, "chat") = "RUNNING"


\* the probe pass of manager m has just ended
ProbeEnded(m) == mgr[m].pc = "idle" /\ mgr[m].last = "spawn_chat"

\* the trial call of a probe never opens or confirms a transaction, and with
\* a price > 0 it makes no upstream request
TrialCallUnpaid ==
    \A m \in Mgrs :
        /\ call[ProbeCall(m)].opened = 0
        /\ call[ProbeCall(m)].confirmed = 0
        /\ call[ProbeCall(m)].txn = "none"
        /\ Priced => call[ProbeCall(m)].requests = 0

\* C22 as stated: the startup probe never opens or confirms a transaction,
\* and whenever the chat price is > 0 the probe fails with the missing-token
\* error before any upstream request and chat ends in FAILED, never RUNNING.
C22_AsStated ==
    /\ TrialCallUnpaid
    /\ \A m \in Mgrs :
           Priced /\ ProbeEnded(m)
           => /\ StatusOf(services, "chat") = "FAILED"
              /\ ~mgr[m].wroteRunning
              /\ services["chat"].error = TokenRequiredError.msg

\* C22: the startup probe never opens or confirms a transaction, and
\* whenever the chat price is > 0 the probe makes no upstream request and
\* chat ends in FAILED, never RUNNING; the error recorded is the
\* missing-token error when the API key is set, and the missing-API-key
\* error (raised before the trial call) when it is not.
C22_PricedProbeAlwaysFails ==
    /\ TrialCallUnpaid
    /\ \A m \in Mgrs :
           Priced /\ ProbeEnded(m)
           => /\ StatusOf(services, "chat") = "FAILED"
              /\ ~mgr[m].wroteRunning
              /\ mgr[m].ret = "False"
              /\ services["chat"].error = IF mgr[m].api_key
                                          THEN TokenRequiredError.msg
                                          ELSE KeyMissingMsg

\* with the API key set and a price > 0 the probe has failed on the missing
\* token
C22_Witness ==
    \E m \in Mgrs :
        /\ Priced /\ ProbeEnded(m)
        /\ mgr[m].api_key
        /\ mgr[m].trial = "raised"
        /\ StatusOf(services, "chat") = "FAILED"
        /\ services["chat"].error = TokenRequiredError.msg


\* C23: spawn_custom_search always ends with the search capability in status
\* FAILED with a non-empty error and returns False, and the search
\* capability is never RUNNING.
C23_SearchProbeAlwaysFails ==
    /\ StatusOf(services, "search") # "RUNNING"
    /\ \A m \in Mgrs :
           mgr[m].last = "spawn_search"
           => /\ StatusOf(services, "search") = "FAILED"
              /\ services["search"].error \notin {"None", ""}
              /\ mgr[m].ret = "False"

\* the search probe has run: search is FAILED with the placeholder's error
C23_Witness ==
    \E m \in Mgrs :
        /\ mgr[m].last = "spawn_search"
        /\ mgr[m].ret = "False"
        /\ StatusOf(services, "search") = "FAILED"
        /\ services["search"].error = NotImplementedMsg

====
